---- MODULE Spec2Model ----
(***************************************************************************)
(* Ingestion and query pipeline of the RAG chat application.               *)
(*                                                                         *)
(*   upload route  src/src/app/api/upload/route.ts   (POST, ingest)        *)
(*   chat route    src/unnamed/part_003:1-141        (POST, query)         *)
(*   upload form   src/src/components/DataSourceForm.tsx                   *)
(*   chat          src/unnamed/part_005, src/src/app/page.tsx              *)
(*                                                                         *)
(* Strings are sequences of one-character strings.  undefined and "" are   *)
(* both falsy to the code and are both modelled by the empty value.        *)
(***************************************************************************)
EXTENDS Integers, Sequences, FiniteSets, TLC

\* ------------------------------------------------------------------ bounds
\* chunkSize / chunkOverlap of the splitter (1000 / 200 in route.ts:26-27),
\* scaled down so that texts of a few characters need several chunks.
ChunkSize == 3
ChunkOverlap == 1
\* longest text drawn as chunker input
MaxTextLen == 6

\* ------------------------------------------------------------ characters
SP == " "
NL == "\n"
TAB == "\t"
Chars == {"a", SP, NL, TAB}
\* String.prototype.trim strips these
IsSpace(c) == c \in {SP, NL, TAB}

RECURSIVE LeadingSpaces(_)
LeadingSpaces(s) ==
  IF s # <<>> /\ IsSpace(Head(s)) THEN 1 + LeadingSpaces(Tail(s)) ELSE 0

RECURSIVE TrailingSpaces(_)
TrailingSpaces(s) ==
  IF s # <<>> /\ IsSpace(s[Len(s)])
  THEN 1 + TrailingSpaces(SubSeq(s, 1, Len(s) - 1)) ELSE 0

\* s.trim()
Trim(s) ==
  IF LeadingSpaces(s) = Len(s) THEN <<>>
  ELSE SubSeq(s, 1 + LeadingSpaces(s), Len(s) - TrailingSpaces(s))

\* !s.trim()  (also true of undefined / "")
IsBlank(s) == Trim(s) = <<>>

\* --------------------------------------------------------------- chunker
\* textSplitter = new RecursiveCharacterTextSplitter({chunkSize, chunkOverlap,
\* separators}) and its splitText, as the library runs it with keepSeparator
\* (the class default).  A piece is an interval [b, e] of the text T; a chunk
\* carries its content and, as ghost fields, the interval it was cut from.
Separators == << <<NL, NL>>, <<NL>>, <<SP>>, <<>> >>

PLen(p) == p.e - p.b + 1
PText(T, p) == SubSeq(T, p.b, p.e)

\* text.startsWith(sep, i)
MatchesAt(T, sep, i, e) ==
  /\ i + Len(sep) - 1 <= e
  /\ SubSeq(T, i, i + Len(sep) - 1) = sep

\* text.includes(sep) on T[b..e]
Includes(T, b, e, sep) == \E i \in b..e : MatchesAt(T, sep, i, e)

\* first separator of the list, from index k on, that is "" or occurs in the text
RECURSIVE PickSeparator(_, _, _, _)
PickSeparator(T, b, e, k) ==
  IF k >= Len(Separators) THEN Len(Separators)
  ELSE IF Separators[k] = <<>> THEN k
  ELSE IF Includes(T, b, e, Separators[k]) THEN k
  ELSE PickSeparator(T, b, e, k + 1)

\* positions at which a new piece starts: text.split(/(?=sep)/), or
\* text.split("") for the empty separator; empty pieces are filtered out
CutPoints(T, b, e, sep) ==
  IF sep = <<>> THEN (b + 1)..e
  ELSE {i \in (b + 1)..e : MatchesAt(T, sep, i, e)}

RECURSIVE PiecesFrom(_, _, _)
PiecesFrom(start, e, cuts) ==
  IF start > e THEN <<>>
  ELSE LET later == {c \in cuts : c > start}
           nxt == IF later = {} THEN e + 1
                  ELSE CHOOSE c \in later : \A d \in later : c <= d
       IN <<[b |-> start, e |-> nxt - 1]>> \o PiecesFrom(nxt, e, cuts)

SplitOnSeparator(T, b, e, sep) == PiecesFrom(b, e, CutPoints(T, b, e, sep))

\* docs.join(separator) with separator "" (keepSeparator)
RECURSIVE JoinPieces(_, _)
JoinPieces(T, cur) ==
  IF cur = <<>> THEN <<>> ELSE PText(T, Head(cur)) \o JoinPieces(T, Tail(cur))

\* joinDocs without the trim
JoinDocsUntrimmed(T, cur) ==
  LET text == JoinPieces(T, cur)
  IN IF cur = <<>> \/ text = <<>> THEN <<>>
     ELSE << [content |-> text, b |-> cur[1].b, e |-> cur[Len(cur)].e] >>

\* joinDocs: join, trim; null when nothing is left (here: the empty sequence)
JoinDocs(T, cur) ==
  LET text == JoinPieces(T, cur)
  IN IF cur = <<>> \/ IsBlank(text) THEN <<>>
     ELSE << [content |-> Trim(text),
              b |-> cur[1].b + LeadingSpaces(text),
              e |-> cur[Len(cur)].e - TrailingSpaces(text)] >>

\* mergeSplits: the while loop that drops pieces from the front of currentDoc
RECURSIVE PopWhile(_, _, _)
PopWhile(cur, total, len) ==
  IF cur # <<>> /\ (total > ChunkOverlap \/ (total + len > ChunkSize /\ total > 0))
  THEN PopWhile(Tail(cur), total - PLen(Head(cur)), len)
  ELSE [cur |-> cur, total |-> total]

\* mergeSplits flushing only once currentDoc is already over chunkSize
MergeStepLateFlush(T, st, d) ==
  LET len == PLen(d) IN
  IF st.total > ChunkSize /\ st.cur # <<>>
  THEN LET popped == PopWhile(st.cur, st.total, len)
       IN [docs |-> st.docs \o JoinDocs(T, st.cur),
           cur |-> Append(popped.cur, d),
           total |-> popped.total + len]
  ELSE [docs |-> st.docs, cur |-> Append(st.cur, d), total |-> st.total + len]

\* mergeSplits: one iteration of `for (const d of splits)`
MergeStep(T, st, d) ==
  LET len == PLen(d) IN
  IF st.total + len > ChunkSize /\ st.cur # <<>>
  THEN LET popped == PopWhile(st.cur, st.total, len)
       IN [docs |-> st.docs \o JoinDocs(T, st.cur),
           cur |-> Append(popped.cur, d),
           total |-> popped.total + len]
  ELSE [docs |-> st.docs, cur |-> Append(st.cur, d), total |-> st.total + len]

\* a merge that turns every piece into a chunk of its own
RECURSIVE MergeSplitsEachPiece(_, _)
MergeSplitsEachPiece(T, splits) ==
  IF splits = <<>> THEN <<>>
  ELSE JoinDocs(T, <<Head(splits)>>) \o MergeSplitsEachPiece(T, Tail(splits))

RECURSIVE MergeLoop(_, _, _)
MergeLoop(T, st, splits) ==
  IF splits = <<>> THEN st
  ELSE MergeLoop(T, MergeStep(T, st, Head(splits)), Tail(splits))

MergeSplits(T, splits) ==
  LET st == MergeLoop(T, [docs |-> <<>>, cur |-> <<>>, total |-> 0], splits)
  IN st.docs \o JoinDocs(T, st.cur)

\* _splitText(text, separators) on T[b..e] with the separators from index k on
RECURSIVE SplitTextFrom(_, _, _, _)
RECURSIVE SplitLoop(_, _, _, _, _)
SplitLoop(T, splits, good, k, hasNew) ==
  IF splits = <<>> THEN MergeSplits(T, good)
  ELSE LET s == Head(splits) IN
       IF PLen(s) < ChunkSize
       THEN SplitLoop(T, Tail(splits), Append(good, s), k, hasNew)
       ELSE MergeSplits(T, good)
            \o (IF hasNew THEN SplitTextFrom(T, s.b, s.e, k + 1)
                ELSE << [content |-> PText(T, s), b |-> s.b, e |-> s.e] >>)
            \o SplitLoop(T, Tail(splits), <<>>, k, hasNew)

SplitTextFrom(T, b, e, k) ==
  LET i == PickSeparator(T, b, e, k)
      sep == Separators[i]
  IN SplitLoop(T, SplitOnSeparator(T, b, e, sep), <<>>, i, sep # <<>>)

\* textSplitter.splitText(text)
SplitText(T) == SplitTextFrom(T, 1, Len(T), 1)

\* number of "\n" in s
RECURSIVE CountNL(_)
CountNL(s) == IF s = <<>> THEN 0
              ELSE (IF Head(s) = NL THEN 1 ELSE 0) + CountNL(Tail(s))

\* {...m, ...extra}
MergeMeta(m, extra) ==
  [k \in DOMAIN m \cup DOMAIN extra |-> IF k \in DOMAIN extra THEN extra[k] ELSE m[k]]

\* createDocuments for one document: one chunk document per piece of splitText,
\* with the document's metadata and the line range of the chunk
ChunkDoc(doc, c) ==
  LET from == 1 + CountNL(SubSeq(doc.pageContent, 1, c.b - 1))
  IN [pageContent |-> c.content,
      metadata |-> MergeMeta(doc.metadata,
                             [loc |-> <<from, from + CountNL(c.content)>>])]

ChunksOfDoc(doc) ==
  LET cs == SplitText(doc.pageContent)
  IN [i \in 1..Len(cs) |-> ChunkDoc(doc, cs[i])]

\* a splitter that takes the documents from the last to the first
RECURSIVE SplitDocumentsReversed(_)
SplitDocumentsReversed(ds) ==
  IF ds = <<>> THEN <<>>
  ELSE SplitDocumentsReversed(Tail(ds)) \o ChunksOfDoc(Head(ds))

\* textSplitter.splitDocuments(docs): the chunks of each document, in order
RECURSIVE SplitDocuments(_)
SplitDocuments(ds) ==
  IF ds = <<>> THEN <<>> ELSE ChunksOfDoc(Head(ds)) \o SplitDocuments(Tail(ds))

\* ---------------------------------------------------- metadata enrichment
\* the enrichment numbering the chunks from 1
EnrichDocOneBased(doc, index, total, t) ==
  [pageContent |-> doc.pageContent,
   metadata |-> MergeMeta(doc.metadata,
                          [chunkIndex |-> index + 1,
                           totalChunks |-> total,
                           chunkSize |-> Len(doc.pageContent),
                           timestamp |-> t])]

\* an enrichment that replaces the inherited metadata by the four new keys
EnrichDocReplacing(doc, index, total, t) ==
  [pageContent |-> doc.pageContent,
   metadata |-> [chunkIndex |-> index,
                 totalChunks |-> total,
                 chunkSize |-> Len(doc.pageContent),
                 timestamp |-> t]]

\* chunkedDocs.map((doc, index) => ...), index is 0-based
EnrichDoc(doc, index, total, t) ==
  [pageContent |-> doc.pageContent,
   metadata |-> MergeMeta(doc.metadata,
                          [chunkIndex |-> index,
                           totalChunks |-> total,
                           chunkSize |-> Len(doc.pageContent),
                           timestamp |-> t])]

\* an enrichment that writes the new keys into the chunk's own metadata object
ChunksAfterEnrichInPlace(chunked, t) ==
  [i \in 1..Len(chunked) |-> EnrichDoc(chunked[i], i - 1, Len(chunked), t)]

\* chunkedDocs after the map: {...doc.metadata, ...} copies the inherited keys
\* into a new object, so the chunks are as the splitter returned them
ChunksAfterEnrich(chunked, t) == chunked

EnrichDocs(chunked, t) ==
  [i \in 1..Len(chunked) |-> EnrichDoc(chunked[i], i - 1, Len(chunked), t)]

\* ----------------------------------------------------------- file inputs
\* buffer.length < 100
MinPdfLen == 100
\* buffer.toString('utf8', 0, 4)
PdfHeaderLen == 4
PdfHeader == <<"%", "P", "D", "F">>

\* Buffer.from(fileContent, "base64") on the file contents that are drawn: a
\* buffer is its length and its first five bytes
Base64Decode(fc) ==
  CASE fc = "pdfOk"    -> [len |-> 120, head |-> <<"%", "P", "D", "F", "-">>]
    [] fc = "pdfMin"   -> [len |-> 100, head |-> <<"%", "P", "D", "F", "-">>]
    [] fc = "pdfShort" -> [len |-> 99,  head |-> <<"%", "P", "D", "F", "-">>]
    [] fc = "pdfTiny"  -> [len |-> 3,   head |-> <<"%", "P", "D">>]
    [] fc = "pdfBare"  -> [len |-> 120, head |-> <<"%", "P", "D", "F", "x">>]
    [] fc = "rows"     -> [len |-> 120, head |-> <<"a", ",", "b", NL, "1">>]
    [] fc = "rowsB"    -> [len |-> 120, head |-> <<"c", ",", "d", NL, "2">>]
    [] OTHER           -> [len |-> 0,   head |-> <<>>]

\* buffer.toString('utf8', 0, n)
BufferPrefix(buf, n) ==
  SubSeq(buf.head, 1, IF Len(buf.head) < n THEN Len(buf.head) ELSE n)

\* the length check off by one
PdfTooSmallOffByOne(buf) == buf.len < MinPdfLen - 1
PdfTooSmall(buf) == buf.len < MinPdfLen
PdfHeaderBad(buf) == BufferPrefix(buf, PdfHeaderLen) # PdfHeader

\* ------------------------------------------------------- request bodies
\* { url, text, fileContent, fileType } = await req.json()
Body(u, t, fc, ft) == [url |-> u, text |-> t, fileContent |-> fc, fileType |-> ft]

ShortText == <<"a", "a">>
LongText == <<"a", "a", SP, "a", "a", SP, "a">>
BlankText == <<SP>>

FileBodies ==
  {Body("", <<>>, fc, "pdf") : fc \in {"pdfOk", "pdfMin", "pdfShort", "pdfTiny", "pdfBare", "rows"}}
  \cup {Body("", <<>>, "rows", ft) : ft \in {"csv", "txt", "doc", ""}}

Bodies ==
  {Body("", <<>>, "", ""), Body("", <<>>, "", "pdf"),
   Body("http://a", <<>>, "", ""),
   Body("", ShortText, "", ""), Body("", LongText, "", ""), Body("", BlankText, "", ""),
   Body("http://a", ShortText, "", ""), Body("http://a", <<>>, "rows", "csv"),
   Body("", LongText, "rows", "csv"), Body("", ShortText, "rows", "doc")}
  \cup FileBodies

\* truthiness of a string field: neither undefined nor ""
TruthyStr(s) == s # ""
TruthyText(t) == t # <<>>

\* number of variants of the request body that are populated
Populated(b) ==
  (IF TruthyStr(b.url) THEN 1 ELSE 0) + (IF TruthyText(b.text) THEN 1 ELSE 0)
  + (IF TruthyStr(b.fileContent) /\ TruthyStr(b.fileType) THEN 1 ELSE 0)

\* what the loaders (Cheerio, PDFLoader, CSVLoader, TextLoader) may return
Doc(content, src) == [pageContent |-> content, metadata |-> [source |-> src]]
\* a document of a loader that records where in the source it was read
\* (CSVLoader: line, PDFLoader: page)
DocAt(content, src, n) ==
  [pageContent |-> content, metadata |-> [source |-> src, line |-> n]]
LoadedDocs(src) ==
  {<<>>, <<DocAt(ShortText, src, 1)>>, <<DocAt(LongText, src, 1), DocAt(ShortText, src, 2)>>}

\* ------------------------------------------------------------------ state
\* number of clock values; Date.now() and new Date() read the clock
MaxClock == 1

Ingests == {"i1", "i2"}
Queries == {"q1"}

Exts == {".pdf", ".csv", ".txt"}
\* path.join(os.tmpdir(), `upload-${Date.now()}${fileExtension}`)
TempPathAt(t, ext) == [t |-> t, ext |-> ext]
Paths == [t : 0..MaxClock, ext : Exts]
NoPath == [t |-> -1, ext |-> ""]
NoFile == "-"
NoResp == [status |-> 0]

VARIABLES
  ipc,         \* ingest request -> the await it is suspended at
  body,        \* ingest request -> parsed request body
  tempPath,    \* ingest request -> tempPath (NoPath is null)
  docs,        \* ingest request -> docs
  chunkedDocs, \* ingest request -> chunkedDocs
  enrichedDocs,\* ingest request -> enrichedDocs
  resp,        \* ingest request -> response returned
  log,         \* ingest request -> stages begun and errors raised, in order
  files,       \* temp directory: path -> content written (NoFile: absent)
  now,         \* clock
  collection,  \* Qdrant endpoint -> records stored in "notebook-collection" there
  env,         \* process.env of the server
  form,        \* DataSourceForm: state of the component
  submit,      \* DataSourceForm: locals of each handleSubmit suspended at its await
  timers,      \* DataSourceForm: setTimeout callbacks that have not run yet
  toast,       \* DataSourceForm: the toast shown last
  indexed,     \* DataSourceForm: number of calls of onIndexed
  submits,     \* DataSourceForm: number of clicks on the submit button
  messages,    \* Chat: messages
  input,       \* Chat: input
  loading,     \* Chat: loading
  inflight,    \* Chat: queries of the axios.post calls that have not settled
  sends,       \* Chat: number of messages sent
  qpc,         \* query request -> the await it is suspended at
  query,       \* query request -> query of the body
  relevantChunks, \* query request -> relevantChunks
  contextDocs, \* query request -> docs the chain retrieved for the prompt
  qresp,       \* query request -> response returned
  qlog,        \* query request -> external calls begun and errors raised
  ctext,       \* chunker under check: the text
  cchunks,     \* chunker under check: the chunks of splitText(ctext)
  cdone        \* chunker under check: splitText has run

ivars == <<ipc, body, tempPath, docs, chunkedDocs, enrichedDocs, resp, log>>
qvars == <<qpc, query, relevantChunks, contextDocs, qresp, qlog>>
cvars == <<ctext, cchunks, cdone>>
fvars == <<form, submit, timers, toast, indexed, submits>>
uvars == <<messages, input, loading, inflight, sends>>
vars == <<ivars, qvars, cvars, files, now, collection, env, fvars, uvars>>

\* ------------------------------------------------- embeddings and stores
\* url: "http://localhost:6333"
LocalUrl == "http://localhost:6333"
\* a QDRANT_URL as the README sets it for a cloud instance
CloudUrl == "https://your-instance-url.qdrant.cloud"
Endpoints == {LocalUrl, CloudUrl}

\* process.env: "" is an unset variable
Envs == [QDRANT_URL : {"", CloudUrl}]

\* new OpenAIEmbeddings({openAIApiKey: process.env.OPENAI_API_KEY}): the model
\* is the class default in both routes
DefaultEmbeddingModel == "default"
embeddings == [model |-> DefaultEmbeddingModel, openAIApiKey |-> "OPENAI_API_KEY"]
chatEmbeddings == [model |-> DefaultEmbeddingModel, openAIApiKey |-> "OPENAI_API_KEY"]

\* the options given to QdrantVectorStore.fromDocuments
UploadStore == [collectionName |-> "notebook-collection", url |-> LocalUrl]

\* the options given to QdrantVectorStore.fromExistingCollection
ChatStore(e) ==
  [collectionName |-> "notebook-collection",
   url |-> IF TruthyStr(e.QDRANT_URL) THEN e.QDRANT_URL ELSE LocalUrl]

Begin(op) == [op |-> op, err |-> FALSE]
Raise(op) == [op |-> op, err |-> TRUE]

\* ------------------------------------------------------ ingest: responses
\* catch (error): NextResponse.json({success: false, error, timestamp}, {status: 500})
Failure(msg, t) == [success |-> FALSE, status |-> 500, error |-> msg, timestamp |-> t]

RECURSIVE SumSizes(_)
SumSizes(ds) == IF ds = <<>> THEN 0 ELSE Len(Head(ds).pageContent) + SumSizes(Tail(ds))

\* Math.round(sum / n); 0 / 0 is NaN
RoundDiv(sum, n) == IF n = 0 THEN "NaN" ELSE (2 * sum + n) \div (2 * n)

\* NextResponse.json({success: true, message, stats})
Success(ds, chunked, enriched) ==
  [success |-> TRUE, status |-> 200,
   stats |-> [originalDocuments |-> Len(ds),
              chunksCreated |-> Len(chunked),
              chunksStored |-> Len(enriched),
              averageChunkSize |-> RoundDiv(SumSizes(enriched), Len(enriched))]]

\* a finally block that leaves the file
CleanupForgotten(tp, fs) == fs

\* finally: if (tempPath && fs.existsSync(tempPath)) fs.unlinkSync(tempPath)
Cleanup(tp, fs) ==
  IF tp # NoPath /\ fs[tp] # NoFile THEN [fs EXCEPT ![tp] = NoFile] ELSE fs

\* a return or a throw inside try: the response, then the finally block
Finish(r, response, tp, fs) ==
  /\ resp' = [resp EXCEPT ![r] = response]
  /\ files' = Cleanup(tp, fs)
  /\ ipc' = [ipc EXCEPT ![r] = "done"]

\* the request goes on to its next await
Goto(r, pc, fs) ==
  /\ ipc' = [ipc EXCEPT ![r] = pc]
  /\ files' = fs
  /\ UNCHANGED resp

Logged(r, entries) == log' = [log EXCEPT ![r] = @ \o entries]

\* fs.writeFileSync(tempPath, buffer): the file written, or a throw that leaves
\* the directory as it was or leaves a file behind
WriteOutcomes == {"written", "throwsNoFile", "throwsFile"}
AfterWrite(w, tp, data) ==
  IF w = "throwsNoFile" THEN files ELSE [files EXCEPT ![tp] = data]

\* --------------------------------------------------------- ingest: steps
\* the request arrives with a body of the set B; req.json() is awaited
ArriveWith(r, B) ==
  /\ ipc[r] = "idle"
  /\ \E b \in B : body' = [body EXCEPT ![r] = b]
  /\ ipc' = [ipc EXCEPT ![r] = "parsed"]
  /\ UNCHANGED <<tempPath, docs, chunkedDocs, enrichedDocs, resp, log, files, now,
                 collection, qvars, cvars, env, fvars, uvars>>

Arrive(r) == ArriveWith(r, Bodies)

\* if (url): new CheerioWebBaseLoader(url).load() is awaited
DispatchUrl(r) ==
  /\ ipc[r] = "parsed"
  /\ TruthyStr(body[r].url)
  /\ Logged(r, <<Begin("fetch")>>)
  /\ Goto(r, "loadUrl", files)
  /\ UNCHANGED <<body, tempPath, docs, chunkedDocs, enrichedDocs, now, collection,
                 qvars, cvars, env, fvars, uvars>>

\* else if (text): one document; docs is not empty; splitDocuments is awaited
DispatchText(r) ==
  /\ ipc[r] = "parsed"
  /\ ~TruthyStr(body[r].url)
  /\ TruthyText(body[r].text)
  /\ docs' = [docs EXCEPT ![r] = <<Doc(body[r].text, "direct_input")>>]
  /\ Logged(r, <<Begin("split")>>)
  /\ Goto(r, "split", files)
  /\ UNCHANGED <<body, tempPath, chunkedDocs, enrichedDocs, now, collection,
                 qvars, cvars, env, fvars, uvars>>

IsFileBranch(b) ==
  /\ ~TruthyStr(b.url)
  /\ ~TruthyText(b.text)
  /\ TruthyStr(b.fileContent) /\ TruthyStr(b.fileType)

\* fileType === "pdf": the two checks, then PDFLoader(blob).load() is awaited
DispatchPdf(r) ==
  /\ ipc[r] = "parsed"
  /\ IsFileBranch(body[r])
  /\ body[r].fileType = "pdf"
  /\ LET buffer == Base64Decode(body[r].fileContent) IN
     IF PdfTooSmall(buffer)
     THEN /\ Logged(r, <<Raise("pdfCheck")>>)
          /\ Finish(r, Failure("PDF file appears to be too small or corrupted", now),
                    tempPath[r], files)
     ELSE IF PdfHeaderBad(buffer)
     THEN /\ Logged(r, <<Raise("pdfCheck")>>)
          /\ Finish(r, Failure("Invalid PDF header - file may not be a valid PDF", now),
                    tempPath[r], files)
     ELSE /\ Logged(r, <<Begin("pdfBlob")>>)
          /\ Goto(r, "loadPdfBlob", files)
  /\ UNCHANGED <<body, tempPath, docs, chunkedDocs, enrichedDocs, now, collection,
                 qvars, cvars, env, fvars, uvars>>

\* tempPath = ...; fs.writeFileSync(tempPath, buffer); loader.load() is awaited
WriteThenLoad(r, ext, loader, pc, before) ==
  \E w \in WriteOutcomes :
    LET tp == TempPathAt(now, ext)
        fs == AfterWrite(w, tp, body[r].fileContent)
    IN /\ tempPath' = [tempPath EXCEPT ![r] = tp]
       /\ IF w = "written"
          THEN /\ Logged(r, before \o <<Begin("write"), Begin(loader)>>)
               /\ Goto(r, pc, fs)
          ELSE /\ Logged(r, before \o <<Begin("write"), Raise("write")>>)
               /\ Finish(r, Failure("write failed", now), tp, fs)

\* fileType === "csv"
DispatchCsv(r) ==
  /\ ipc[r] = "parsed"
  /\ IsFileBranch(body[r])
  /\ body[r].fileType = "csv"
  /\ WriteThenLoad(r, ".csv", "csvFile", "loadCsv", <<>>)
  /\ UNCHANGED <<body, docs, chunkedDocs, enrichedDocs, now, collection, qvars, cvars, env, fvars, uvars>>

\* fileType === "txt": new TextLoader(blob).load() is awaited
DispatchTxt(r) ==
  /\ ipc[r] = "parsed"
  /\ IsFileBranch(body[r])
  /\ body[r].fileType = "txt"
  /\ Logged(r, <<Begin("txtBlob")>>)
  /\ Goto(r, "loadTxtBlob", files)
  /\ UNCHANGED <<body, tempPath, docs, chunkedDocs, enrichedDocs, now, collection,
                 qvars, cvars, env, fvars, uvars>>

\* any other fileType
DispatchUnsupported(r) ==
  /\ ipc[r] = "parsed"
  /\ IsFileBranch(body[r])
  /\ body[r].fileType \notin {"pdf", "csv", "txt"}
  /\ Logged(r, <<Raise("fileType")>>)
  /\ Finish(r, Failure("Unsupported file type", now), tempPath[r], files)
  /\ UNCHANGED <<body, tempPath, docs, chunkedDocs, enrichedDocs, now, collection,
                 qvars, cvars, env, fvars, uvars>>

\* else: no url, no text, no fileContent && fileType
DispatchNone(r) ==
  /\ ipc[r] = "parsed"
  /\ ~TruthyStr(body[r].url)
  /\ ~TruthyText(body[r].text)
  /\ ~(TruthyStr(body[r].fileContent) /\ TruthyStr(body[r].fileType))
  /\ Logged(r, <<Raise("input")>>)
  /\ Finish(r, Failure("No valid input provided (url, text, or fileContent required)", now),
            tempPath[r], files)
  /\ UNCHANGED <<body, tempPath, docs, chunkedDocs, enrichedDocs, now, collection,
                 qvars, cvars, env, fvars, uvars>>

\* the loaded documents going to the splitter without the check of line 138
AfterLoadUnchecked(r, ds, fs) ==
  /\ docs' = [docs EXCEPT ![r] = ds]
  /\ Logged(r, <<Begin("split")>>)
  /\ Goto(r, "split", fs)

\* docs = await loader.load() has resolved: the check of line 138, then
\* textSplitter.splitDocuments(docs) is awaited
AfterLoad(r, ds, fs) ==
  /\ docs' = [docs EXCEPT ![r] = ds]
  /\ IF ds = <<>>
     THEN /\ Logged(r, <<Raise("noDocs")>>)
          /\ Finish(r, Failure("No documents were loaded", now), tempPath[r], fs)
     ELSE /\ Logged(r, <<Begin("split")>>)
          /\ Goto(r, "split", fs)

\* a loader error that is logged and swallowed: the request goes on to split
LoadThrowsSwallowed(r, op) ==
  /\ Logged(r, <<Raise(op)>>)
  /\ Goto(r, "split", files)
  /\ UNCHANGED docs

\* loader.load() has rejected and nothing catches it before the outer catch
LoadThrows(r, op) ==
  /\ Logged(r, <<Raise(op)>>)
  /\ Finish(r, Failure("loader failed", now), tempPath[r], files)
  /\ UNCHANGED docs

\* a loader that reads tempPath can only succeed while the file is there
TempFilePresent(r) == tempPath[r] # NoPath /\ files[tempPath[r]] # NoFile

\* CheerioWebBaseLoader.load() settles
LoadUrl(r) ==
  /\ ipc[r] = "loadUrl"
  /\ \/ \E ds \in LoadedDocs(body[r].url) : AfterLoad(r, ds, files)
     \/ LoadThrows(r, "fetch")
  /\ UNCHANGED <<body, tempPath, chunkedDocs, enrichedDocs, now, collection, qvars, cvars, env, fvars, uvars>>

\* PDFLoader(pdfBlob).load() settles; catch (blobError): the temp file approach
LoadPdfBlob(r) ==
  /\ ipc[r] = "loadPdfBlob"
  /\ \/ /\ \E ds \in LoadedDocs("blob") : AfterLoad(r, ds, files)
        /\ UNCHANGED tempPath
     \/ /\ WriteThenLoad(r, ".pdf", "pdfFile", "loadPdfFile", <<Raise("pdfBlob")>>)
        /\ UNCHANGED docs
  /\ UNCHANGED <<body, chunkedDocs, enrichedDocs, now, collection, qvars, cvars, env, fvars, uvars>>

\* PDFLoader(tempPath).load() settles
LoadPdfFile(r) ==
  /\ ipc[r] = "loadPdfFile"
  /\ \/ /\ TempFilePresent(r)
        /\ \E ds \in LoadedDocs("file") : AfterLoad(r, ds, files)
     \/ LoadThrows(r, "pdfFile")
  /\ UNCHANGED <<body, tempPath, chunkedDocs, enrichedDocs, now, collection, qvars, cvars, env, fvars, uvars>>

\* CSVLoader(tempPath).load() settles
LoadCsv(r) ==
  /\ ipc[r] = "loadCsv"
  /\ \/ /\ TempFilePresent(r)
        /\ \E ds \in LoadedDocs("file") : AfterLoad(r, ds, files)
     \/ LoadThrows(r, "csvFile")
  /\ UNCHANGED <<body, tempPath, chunkedDocs, enrichedDocs, now, collection, qvars, cvars, env, fvars, uvars>>

\* TextLoader(textBlob).load() settles; catch (blobError): the temp file approach
LoadTxtBlob(r) ==
  /\ ipc[r] = "loadTxtBlob"
  /\ \/ /\ \E ds \in LoadedDocs("blob") : AfterLoad(r, ds, files)
        /\ UNCHANGED tempPath
     \/ /\ WriteThenLoad(r, ".txt", "txtFile", "loadTxtFile", <<Raise("txtBlob")>>)
        /\ UNCHANGED docs
  /\ UNCHANGED <<body, chunkedDocs, enrichedDocs, now, collection, qvars, cvars, env, fvars, uvars>>

\* TextLoader(tempPath).load() settles
LoadTxtFile(r) ==
  /\ ipc[r] = "loadTxtFile"
  /\ \/ /\ TempFilePresent(r)
        /\ \E ds \in LoadedDocs("file") : AfterLoad(r, ds, files)
     \/ LoadThrows(r, "txtFile")
  /\ UNCHANGED <<body, tempPath, chunkedDocs, enrichedDocs, now, collection, qvars, cvars, env, fvars, uvars>>

\* points that carry no identity of their own: equal chunks are one point
RecordsUnowned(r, ds) == {[owner |-> "i1", doc |-> ds[i]] : i \in 1..Len(ds)}

\* records of request r for the enriched chunks ds (a point per chunk, each
\* under an id of its own)
Records(r, ds) == {[owner |-> r, doc |-> ds[i]] : i \in 1..Len(ds)}
FirstRecords(r, ds, k) == {[owner |-> r, doc |-> ds[i]] : i \in 1..k}
StoredBy(r, coll) == {rec \in coll : rec.owner = r}

\* splitDocuments has resolved; enrichedDocs; QdrantVectorStore.fromDocuments
\* is awaited: it embeds the chunks first, and with no chunk it calls nothing
Split(r) ==
  /\ ipc[r] = "split"
  /\ LET chunked == SplitDocuments(docs[r])
         enriched == EnrichDocs(chunked, now)
     IN /\ chunkedDocs' = [chunkedDocs EXCEPT ![r] = ChunksAfterEnrich(chunked, now)]
        /\ enrichedDocs' = [enrichedDocs EXCEPT ![r] = enriched]
        /\ IF enriched = <<>>
           THEN /\ UNCHANGED log
                /\ Finish(r, Success(docs[r], chunked, enriched), tempPath[r], files)
           ELSE /\ Logged(r, <<Begin("embed")>>)
                /\ Goto(r, "embed", files)
  /\ UNCHANGED <<body, tempPath, docs, now, collection, qvars, cvars, env, fvars, uvars>>

\* a route that calls the embedding once more after its first failure
EmbedRetriedOnce(r) ==
  /\ ipc[r] = "embed"
  /\ \/ /\ Logged(r, <<Begin("store")>>)
        /\ Goto(r, "store", files)
     \/ /\ \A i \in 1..Len(log[r]) : log[r][i] # Raise("embed")
        /\ Logged(r, <<Raise("embed"), Begin("embed")>>)
        /\ Goto(r, "embed", files)
     \/ /\ \E i \in 1..Len(log[r]) : log[r][i] = Raise("embed")
        /\ Logged(r, <<Raise("embed")>>)
        /\ Finish(r, Failure("embedding failed", now), tempPath[r], files)
  /\ UNCHANGED <<body, tempPath, docs, chunkedDocs, enrichedDocs, now, collection,
                 qvars, cvars, env, fvars, uvars>>

\* embeddings.embedDocuments settles; then the collection is ensured and upserted
Embed(r) ==
  /\ ipc[r] = "embed"
  /\ \/ /\ Logged(r, <<Begin("store")>>)
        /\ Goto(r, "store", files)
     \/ /\ Logged(r, <<Raise("embed")>>)
        /\ Finish(r, Failure("embedding failed", now), tempPath[r], files)
  /\ UNCHANGED <<body, tempPath, docs, chunkedDocs, enrichedDocs, now, collection,
                 qvars, cvars, env, fvars, uvars>>

\* an upsert that replaces what the collection held
UpsertReplacing(coll, recs) == recs

\* client.upsert(collectionName, {points}): the points are added
Upsert(coll, recs) == coll \cup recs

\* client.upsert settles: all points written, or a throw after some of them
Store(r) ==
  /\ ipc[r] = "store"
  /\ \/ /\ collection' = [collection EXCEPT ![UploadStore.url] =
                            Upsert(@, Records(r, enrichedDocs[r]))]
        /\ UNCHANGED log
        /\ Finish(r, Success(docs[r], chunkedDocs[r], enrichedDocs[r]), tempPath[r], files)
     \/ \E k \in 0..Len(enrichedDocs[r]) :
          /\ collection' = [collection EXCEPT ![UploadStore.url] =
                            Upsert(@, FirstRecords(r, enrichedDocs[r], k))]
          /\ Logged(r, <<Raise("store")>>)
          /\ Finish(r, Failure("store failed", now), tempPath[r], files)
  /\ UNCHANGED <<body, tempPath, docs, chunkedDocs, enrichedDocs, now, qvars, cvars, env, fvars, uvars>>

\* time passes
Tick ==
  /\ now < MaxClock
  /\ now' = now + 1
  /\ UNCHANGED <<ivars, qvars, cvars, env, fvars, uvars, files, collection>>

\* ------------------------------------------------------------ chat route
\* vectorStore.asRetriever({k: 5})
RetrieveK == 5

QueryTexts == {<<>>, <<SP>>, <<SP, NL>>, <<"a">>, <<SP, "a">>}

\* the query check without the trim
QueryMissingUntrimmed(q) == q = <<>>

\* !query || query.trim() === ""
QueryMissing(q) == q = <<>> \/ Trim(q) = <<>>

NoInfoAnswer ==
  "I couldn't find any relevant information in the uploaded documents to answer your question."

\* similarity search: the k best records of the collection in rank order (the
\* rank of a record for the query is fixed; here by request and chunk index)
OwnerRank(o) == IF o = "i1" THEN 0 ELSE 1
Before(x, y) ==
  \/ OwnerRank(x.owner) < OwnerRank(y.owner)
  \/ /\ x.owner = y.owner
     /\ x.doc.metadata.chunkIndex <= y.doc.metadata.chunkIndex

RECURSIVE TopK(_, _)
TopK(coll, k) ==
  IF k = 0 \/ coll = {} THEN <<>>
  ELSE LET best == CHOOSE x \in coll : \A y \in coll : Before(x, y)
       IN <<best.doc>> \o TopK(coll \ {best}, k - 1)

\* the emptiness check left out
NoRelevantChunksUnchecked(chunks) == FALSE

\* relevantChunks.length === 0
NoRelevantChunks(chunks) == Len(chunks) = 0

QFinish(q, response) ==
  /\ qresp' = [qresp EXCEPT ![q] = response]
  /\ qpc' = [qpc EXCEPT ![q] = "done"]

QGoto(q, pc) ==
  /\ qpc' = [qpc EXCEPT ![q] = pc]
  /\ UNCHANGED qresp

QLogged(q, entries) == qlog' = [qlog EXCEPT ![q] = @ \o entries]

\* catch (error): NextResponse.json({success: false, error, details}, {status: 500})
QFailure(msg) == [success |-> FALSE, status |-> 500, error |-> msg]

\* the request arrives with a query of the set T; req.json() is awaited
QArriveWith(q, T) ==
  /\ qpc[q] = "idle"
  /\ \E t \in T : query' = [query EXCEPT ![q] = t]
  /\ qpc' = [qpc EXCEPT ![q] = "parsed"]
  /\ UNCHANGED <<relevantChunks, contextDocs, qresp, qlog, ivars, cvars, env, fvars, uvars, files, now,
                 collection>>

QArrive(q) == QArriveWith(q, QueryTexts)

\* the query check; QdrantVectorStore.fromExistingCollection is awaited
QValidate(q) ==
  /\ qpc[q] = "parsed"
  /\ IF QueryMissing(query[q])
     THEN /\ UNCHANGED qlog
          /\ QFinish(q, [status |-> 400, error |-> "Query is required"])
     ELSE /\ QLogged(q, <<Begin("connect")>>)
          /\ QGoto(q, "connect")
  /\ UNCHANGED <<query, relevantChunks, contextDocs, ivars, cvars, env, fvars, uvars, files, now, collection>>

\* fromExistingCollection settles; retriever.invoke(query) is awaited
QConnect(q) ==
  /\ qpc[q] = "connect"
  /\ \/ /\ QLogged(q, <<Begin("retrieve")>>)
        /\ QGoto(q, "retrieve")
     \/ /\ QLogged(q, <<Raise("connect")>>)
        /\ QFinish(q, QFailure("store unavailable"))
  /\ UNCHANGED <<query, relevantChunks, contextDocs, ivars, cvars, env, fvars, uvars, files, now, collection>>

\* retriever.invoke(query) settles: the fixed answer when nothing was found,
\* else the chain is invoked and its context step awaits the retriever again
QRetrieve(q) ==
  /\ qpc[q] = "retrieve"
  /\ \/ LET chunks == TopK(collection[ChatStore(env).url], RetrieveK) IN
        /\ relevantChunks' = [relevantChunks EXCEPT ![q] = chunks]
        /\ IF NoRelevantChunks(chunks)
           THEN /\ UNCHANGED qlog
                /\ QFinish(q, [status |-> 200, answer |-> NoInfoAnswer, chunks |-> 0])
           ELSE /\ QLogged(q, <<Begin("retrieve")>>)
                /\ QGoto(q, "chain")
     \/ /\ QLogged(q, <<Raise("retrieve")>>)
        /\ QFinish(q, QFailure("retrieval failed"))
        /\ UNCHANGED relevantChunks
  /\ UNCHANGED <<query, contextDocs, ivars, cvars, env, fvars, uvars, files, now, collection>>

\* the chain's retriever.invoke(input.question) settles; the prompt goes to llm
QChainRetrieve(q) ==
  /\ qpc[q] = "chain"
  /\ \/ /\ contextDocs' = [contextDocs EXCEPT ![q] = TopK(collection[ChatStore(env).url], RetrieveK)]
        /\ QLogged(q, <<Begin("llm")>>)
        /\ QGoto(q, "llm")
     \/ /\ QLogged(q, <<Raise("retrieve")>>)
        /\ QFinish(q, QFailure("retrieval failed"))
        /\ UNCHANGED contextDocs
  /\ UNCHANGED <<query, relevantChunks, ivars, cvars, env, fvars, uvars, files, now, collection>>

\* the chat model settles
QGenerate(q) ==
  /\ qpc[q] = "llm"
  /\ \/ /\ \E a \in {"", "generated answer"} :
             QFinish(q, [success |-> TRUE, status |-> 200, answer |-> a,
                         chunksRetrieved |-> Len(relevantChunks[q])])
        /\ UNCHANGED qlog
     \/ /\ QLogged(q, <<Raise("llm")>>)
        /\ QFinish(q, QFailure("generation failed"))
  /\ UNCHANGED <<query, relevantChunks, contextDocs, ivars, cvars, env, fvars, uvars, files, now, collection>>

\* ------------------------------------------------------ chat component
\* Chat of the page.  A message is its role and its text; the text of a user
\* message is the input, a sequence of characters.
\* number of messages the user sends
MaxSends == 2

Msg(role, text) == [role |-> role, text |-> text]

defaultWelcome == Msg("system", "Welcome to ChaiCode Mentorship")

ChatInputs == {<<>>, <<SP>>, <<"a">>}

\* what the message list shows for a message: the welcome card for every
\* message of role system, else a bubble with the text and an avatar
Render(m) ==
  IF m.role = "system"
  THEN [card |-> "welcome", avatar |-> "info", text |-> ""]
  ELSE [card |-> "bubble",
        avatar |-> IF m.role = "user" THEN "user" ELSE "assistant",
        text |-> m.text]

\* clear() of the handle the component exposes
clear == messages' = <<defaultWelcome>>

\* handleIndexed of the page: chatRef.current.clear()
handleIndexed ==
  /\ clear
  /\ UNCHANGED <<input, loading, inflight, sends>>

\* the clear button (disabled while loading)
handleClearChat ==
  /\ ~loading
  /\ messages' = <<defaultWelcome>>
  /\ toast' = "Chat cleared."
  /\ UNCHANGED <<input, loading, inflight, sends>>
  /\ UNCHANGED <<form, submit, timers, indexed, submits>>
  /\ UNCHANGED <<ivars, qvars, cvars, files, now, collection, env>>

\* onChange of the input (disabled while loading)
SetInput(t) ==
  /\ ~loading
  /\ input' = t
  /\ UNCHANGED <<messages, loading, inflight, sends, fvars>>
  /\ UNCHANGED <<ivars, qvars, cvars, files, now, collection, env>>

\* a sendMessage that goes on to post the input
SendAcceptedBlank(inp, ld) == ~ld

\* the guard of sendMessage: !input.trim() || loading returns
SendAccepted(inp, ld) == ~(IsBlank(inp) \/ ld)

\* sendMessage up to its return or its await of axios.post
sendMessage ==
  /\ sends < MaxSends
  /\ IF SendAccepted(input, loading)
     THEN /\ messages' = Append(messages, Msg("user", input))
          /\ input' = <<>>
          /\ loading' = TRUE
          /\ inflight' = Append(inflight, input)
          /\ sends' = sends + 1
          /\ UNCHANGED toast
     ELSE /\ toast' = IF IsBlank(input) THEN "Please enter a message." ELSE toast
          /\ UNCHANGED <<messages, input, loading, inflight, sends>>
  /\ UNCHANGED <<form, submit, timers, indexed, submits>>
  /\ UNCHANGED <<ivars, qvars, cvars, files, now, collection, env>>

\* the posted request reaches the chat route
PostArrives(q) ==
  /\ inflight # <<>>
  /\ QArriveWith(q, {Head(inflight)})

\* axios resolves for a status of 2xx and rejects otherwise
AxiosResolves(res) == res.status \in 200..299

\* a reply that gives every response the role of an answer
ReplyAlwaysAssistant(res) ==
  Msg("assistant", IF AxiosResolves(res) THEN res.answer ELSE res.error)

\* the message sendMessage appends for the settled axios.post
Reply(res) ==
  IF AxiosResolves(res)
  THEN IF res.answer # ""
       THEN Msg("assistant", res.answer)
       ELSE Msg("system", "Unexpected response from server.")
  ELSE Msg("system", "Something went wrong. Please try again.")

\* the toast of the settled axios.post
ReplyToast(res, t) ==
  IF AxiosResolves(res)
  THEN IF res.answer # "" THEN t ELSE "Unexpected response from server."
  ELSE res.error

\* a request that never reached the route: axios rejects without a response
NetworkError == [status |-> 0, error |-> "Network Error"]

\* axios.post settles and sendMessage runs to its end; the route's request is over
sendMessageSettles(q) ==
  /\ inflight # <<>>
  /\ \/ /\ qpc[q] = "done"
        /\ messages' = Append(messages, Reply(qresp[q]))
        /\ toast' = ReplyToast(qresp[q], toast)
        /\ qpc' = [qpc EXCEPT ![q] = "idle"]
        /\ query' = [query EXCEPT ![q] = <<>>]
        /\ relevantChunks' = [relevantChunks EXCEPT ![q] = <<>>]
        /\ contextDocs' = [contextDocs EXCEPT ![q] = <<>>]
        /\ qresp' = [qresp EXCEPT ![q] = NoResp]
        /\ qlog' = [qlog EXCEPT ![q] = <<>>]
     \/ /\ qpc[q] = "idle"
        /\ messages' = Append(messages, Reply(NetworkError))
        /\ toast' = ReplyToast(NetworkError, toast)
        /\ UNCHANGED qvars
  /\ loading' = FALSE
  /\ inflight' = Tail(inflight)
  /\ UNCHANGED <<input, sends>>
  /\ UNCHANGED <<form, submit, timers, indexed, submits>>
  /\ UNCHANGED <<ivars, cvars, files, now, collection, env>>

\* ------------------------------------------------------ upload form
\* DataSourceForm.tsx.  The inputs are sequences of characters; a file is its
\* name, as the parts between the dots, and its size in bytes.
\* number of clicks on the submit button
MaxSubmits == 2

\* const maxBytes = 10 * 1024 * 1024
MaxBytes == 10 * 1024 * 1024

NoFileSel == [name |-> <<>>, size |-> -1]
FileChoices ==
  {[name |-> <<"a", "PDF">>, size |-> 1000],
   [name |-> <<"a", "exe">>, size |-> 1000],
   [name |-> <<"b", "csv">>, size |-> MaxBytes + 1]}
UrlInputs == {<<>>, <<SP>>, <<SP, "u">>}
TextInputs == {<<>>, <<NL>>, <<"a", SP>>}
Tabs == {"url", "text", "file"}

\* s.toLowerCase() on the extensions drawn
ToLowerCase(x) == IF x = "PDF" THEN "pdf" ELSE x

\* file.name.split('.').pop()?.toLowerCase()
FileExt(f) == ToLowerCase(f.name[Len(f.name)])

NoProcessed == [name |-> <<>>, status |-> ""]

\* s without its i-th element
RemoveAt(s, i) == SubSeq(s, 1, i - 1) \o SubSeq(s, i + 1, Len(s))

\* useState initial values
FormInit ==
  [activeTab |-> "url", url |-> <<>>, text |-> <<>>, file |-> NoFileSel,
   loading |-> FALSE, processedFile |-> NoProcessed]

\* handleTabClick(key): everything is reset; a pending setTimeout is not cleared
handleTabClick(key) ==
  /\ form' = [FormInit EXCEPT !.activeTab = key]
  /\ UNCHANGED <<submit, timers, toast, indexed, submits>>
  /\ UNCHANGED <<ivars, qvars, cvars, files, now, collection, env, uvars>>

\* onChange of the url input (disabled while loading)
SetUrl(u) ==
  /\ form.activeTab = "url" /\ ~form.loading
  /\ form' = [form EXCEPT !.url = u]
  /\ UNCHANGED <<submit, timers, toast, indexed, submits>>
  /\ UNCHANGED <<ivars, qvars, cvars, files, now, collection, env, uvars>>

\* onChange of the textarea (disabled while loading)
SetText(t) ==
  /\ form.activeTab = "text" /\ ~form.loading
  /\ form' = [form EXCEPT !.text = t]
  /\ UNCHANGED <<submit, timers, toast, indexed, submits>>
  /\ UNCHANGED <<ivars, qvars, cvars, files, now, collection, env, uvars>>

\* onChange of the file input (disabled while loading)
SetFile(f) ==
  /\ form.activeTab = "file" /\ ~form.loading
  /\ form' = [form EXCEPT !.file = f]
  /\ UNCHANGED <<submit, timers, toast, indexed, submits>>
  /\ UNCHANGED <<ivars, qvars, cvars, files, now, collection, env, uvars>>

\* the dismiss button of the processed file
DismissProcessed ==
  /\ form.processedFile # NoProcessed
  /\ form' = [form EXCEPT !.processedFile = NoProcessed, !.file = NoFileSel]
  /\ UNCHANGED <<submit, timers, toast, indexed, submits>>
  /\ UNCHANGED <<ivars, qvars, cvars, files, now, collection, env, uvars>>

\* a validation of handleSubmit failed: toast.error, setLoading(false), return
Rejected(msg) ==
  /\ toast' = msg
  /\ form' = [form EXCEPT !.loading = FALSE]
  /\ UNCHANGED <<submit, timers>>

\* setTimeout(async () => {...}, 1800): the callback closes over activeTab and
\* file of the render in which handleSubmit was called
Scheduled(tab, f) ==
  /\ timers' = Append(timers, [activeTab |-> tab, file |-> f])
  /\ form' = [form EXCEPT !.loading = TRUE]

\* handleSubmit up to its return, its await or the end of the try block
handleSubmit ==
  /\ ~(form.loading \/ (form.activeTab = "file" /\ form.processedFile # NoProcessed))
  /\ submits < MaxSubmits
  /\ submits' = submits + 1
  /\ IF form.activeTab = "file" /\ form.file # NoFileSel
        /\ FileExt(form.file) \notin {"pdf", "csv", "txt"}
     THEN Rejected("Unsupported file type. Only PDF, CSV or TXT allowed.")
     ELSE IF form.activeTab = "file" /\ form.file # NoFileSel /\ form.file.size > MaxBytes
     THEN Rejected("File too large. Max allowed size is 10MB.")
     ELSE IF form.activeTab = "url"
     THEN IF IsBlank(form.url)
          THEN Rejected("Please enter a URL.")
          ELSE Scheduled("url", form.file) /\ UNCHANGED <<submit, toast>>
     ELSE IF form.activeTab = "text"
     THEN IF IsBlank(form.text)
          THEN Rejected("Please enter some text.")
          ELSE Scheduled("text", form.file) /\ UNCHANGED <<submit, toast>>
     ELSE IF form.file = NoFileSel
          THEN Rejected("Please select a file.")
          ELSE /\ submit' = Append(submit, [activeTab |-> "file", file |-> form.file])
               /\ form' = [form EXCEPT !.loading = TRUE]
               /\ UNCHANGED <<timers, toast>>
  /\ UNCHANGED indexed
  /\ UNCHANGED <<ivars, qvars, cvars, files, now, collection, env, uvars>>

\* await fileToBase64(file) settles: the timeout is set, or the catch block runs
FileEncoded ==
  /\ \E i \in 1..Len(submit) :
       /\ submit' = RemoveAt(submit, i)
       /\ \/ /\ timers' = Append(timers, submit[i])
             /\ UNCHANGED <<form, toast>>
          \/ /\ toast' = "Error uploading: "
             /\ form' = [form EXCEPT !.loading = FALSE]
             /\ UNCHANGED timers
  /\ UNCHANGED <<indexed, submits>>
  /\ UNCHANGED <<ivars, qvars, cvars, files, now, collection, env, uvars>>

\* the setTimeout callback runs: "Simulate API call and file processing"; its
\* onIndexed() is handleIndexed of the page
TimeoutFires ==
  /\ timers # <<>>
  /\ LET c == Head(timers) IN
     /\ form' = [form EXCEPT
          !.processedFile = IF c.activeTab = "file" /\ c.file # NoFileSel
                            THEN [name |-> c.file.name, status |-> "processed"]
                            ELSE @,
          !.loading = FALSE,
          !.url = IF c.activeTab = "url" THEN <<>> ELSE @,
          !.text = IF c.activeTab = "text" THEN <<>> ELSE @]
     /\ timers' = Tail(timers)
  /\ toast' = "Upload successful!"
  /\ indexed' = indexed + 1
  /\ handleIndexed
  /\ UNCHANGED <<submit, submits>>
  /\ UNCHANGED <<ivars, qvars, cvars, files, now, collection, env>>

\* ---------------------------------------------------------- specification
Init ==
  /\ ipc = [r \in Ingests |-> "idle"]
  /\ body = [r \in Ingests |-> Body("", <<>>, "", "")]
  /\ tempPath = [r \in Ingests |-> NoPath]
  /\ docs = [r \in Ingests |-> <<>>]
  /\ chunkedDocs = [r \in Ingests |-> <<>>]
  /\ enrichedDocs = [r \in Ingests |-> <<>>]
  /\ resp = [r \in Ingests |-> NoResp]
  /\ log = [r \in Ingests |-> <<>>]
  /\ files = [p \in Paths |-> NoFile]
  /\ now = 0
  /\ collection = [e \in Endpoints |-> {}]
  /\ env \in Envs
  /\ form = FormInit
  /\ submit = <<>>
  /\ timers = <<>>
  /\ toast = ""
  /\ indexed = 0
  /\ submits = 0
  /\ messages = <<defaultWelcome>>
  /\ input = <<>>
  /\ loading = FALSE
  /\ inflight = <<>>
  /\ sends = 0
  /\ qpc = [q \in Queries |-> "idle"]
  /\ query = [q \in Queries |-> <<>>]
  /\ relevantChunks = [q \in Queries |-> <<>>]
  /\ contextDocs = [q \in Queries |-> <<>>]
  /\ qresp = [q \in Queries |-> NoResp]
  /\ qlog = [q \in Queries |-> <<>>]
  /\ ctext = <<>>
  /\ cchunks = <<>>
  /\ cdone = FALSE

\* one ingest request and one query request, in any interleaving
Next ==
  \/ \E r \in {"i1"} :
       \/ Arrive(r)
       \/ DispatchUrl(r) \/ DispatchText(r) \/ DispatchPdf(r) \/ DispatchCsv(r)
       \/ DispatchTxt(r) \/ DispatchUnsupported(r) \/ DispatchNone(r)
       \/ LoadUrl(r) \/ LoadPdfBlob(r) \/ LoadPdfFile(r) \/ LoadCsv(r)
       \/ LoadTxtBlob(r) \/ LoadTxtFile(r)
       \/ Split(r) \/ Embed(r) \/ Store(r)
  \/ \E q \in Queries :
       \/ QArrive(q) \/ QValidate(q) \/ QConnect(q) \/ QRetrieve(q)
       \/ QChainRetrieve(q) \/ QGenerate(q)
  \/ Tick

Spec == Init /\ [][Next]_vars

\* ------------------------------------------------- the chunker on its own
RECURSIVE TextsOfLen(_)
TextsOfLen(n) ==
  IF n = 0 THEN {<<>>}
  ELSE {Append(t, c) : t \in TextsOfLen(n - 1), c \in Chars}

Texts == UNION {TextsOfLen(n) : n \in 0..MaxTextLen}

\* textSplitter.splitText(ctext)
RunSplitText ==
  /\ ~cdone
  /\ cchunks' = SplitText(ctext)
  /\ cdone' = TRUE
  /\ UNCHANGED <<ctext, ivars, qvars, files, now, collection, env, fvars, uvars>>

ChunkInit ==
  /\ ipc = [r \in Ingests |-> "idle"]
  /\ body = [r \in Ingests |-> Body("", <<>>, "", "")]
  /\ tempPath = [r \in Ingests |-> NoPath]
  /\ docs = [r \in Ingests |-> <<>>]
  /\ chunkedDocs = [r \in Ingests |-> <<>>]
  /\ enrichedDocs = [r \in Ingests |-> <<>>]
  /\ resp = [r \in Ingests |-> NoResp]
  /\ log = [r \in Ingests |-> <<>>]
  /\ files = [p \in Paths |-> NoFile]
  /\ now = 0
  /\ collection = [e \in Endpoints |-> {}]
  /\ env = [QDRANT_URL |-> ""]
  /\ form = FormInit
  /\ submit = <<>>
  /\ timers = <<>>
  /\ toast = ""
  /\ indexed = 0
  /\ submits = 0
  /\ messages = <<defaultWelcome>>
  /\ input = <<>>
  /\ loading = FALSE
  /\ inflight = <<>>
  /\ sends = 0
  /\ qpc = [q \in Queries |-> "idle"]
  /\ query = [q \in Queries |-> <<>>]
  /\ relevantChunks = [q \in Queries |-> <<>>]
  /\ contextDocs = [q \in Queries |-> <<>>]
  /\ qresp = [q \in Queries |-> NoResp]
  /\ qlog = [q \in Queries |-> <<>>]
  /\ ctext \in Texts
  /\ cchunks = <<>>
  /\ cdone = FALSE

ChunkNext == RunSplitText

ChunkSpec == ChunkInit /\ [][ChunkNext]_vars

\* ------------------------------------------ text requests of every content
\* every text of up to chunkSize + 1 characters sent as the text variant
TextBodies == {Body("", t, "", "") : t \in UNION {TextsOfLen(n) : n \in 0..(ChunkSize + 1)}}

TextNext ==
  \E r \in {"i1"} :
    \/ ArriveWith(r, TextBodies)
    \/ DispatchText(r) \/ DispatchNone(r)
    \/ Split(r) \/ Embed(r) \/ Store(r)

TextSpec == Init /\ [][TextNext]_vars

\* -------------------------------------------------- requests in parallel
\* two ingest requests and a query request in any interleaving; the bodies are
\* a text of one chunk and a text of several chunks
ConcBodies == {Body("", ShortText, "", ""), Body("", LongText, "", "")}

ConcNext ==
  \/ \E r \in Ingests :
       \/ ArriveWith(r, ConcBodies)
       \/ DispatchText(r) \/ Split(r) \/ Embed(r) \/ Store(r)
  \/ \E q \in Queries :
       \/ QArrive(q) \/ QValidate(q) \/ QConnect(q) \/ QRetrieve(q)
       \/ QChainRetrieve(q) \/ QGenerate(q)

ConcSpec == Init /\ [][ConcNext]_vars

\* ------------------------------------------- file requests in parallel
\* two ingest requests that each send a csv file, in any interleaving and at
\* any times
FileConcBodies == {Body("", <<>>, "rows", "csv"), Body("", <<>>, "rowsB", "csv")}

FileConcNext ==
  \/ \E r \in Ingests :
       \/ ArriveWith(r, FileConcBodies)
       \/ DispatchCsv(r) \/ LoadCsv(r)
       \/ Split(r) \/ Embed(r) \/ Store(r)
  \/ Tick

FileConcSpec == Init /\ [][FileConcNext]_vars

\* ------------------------------------------------------ the form in use
FormNext ==
  \/ \E key \in Tabs : handleTabClick(key)
  \/ \E u \in UrlInputs : SetUrl(u)
  \/ \E t \in TextInputs : SetText(t)
  \/ \E f \in FileChoices \cup {NoFileSel} : SetFile(f)
  \/ DismissProcessed
  \/ handleSubmit \/ FileEncoded \/ TimeoutFires

FormSpec == Init /\ [][FormNext]_vars

\* ------------------------------------------------------ the chat of the page
\* the chat component posting to the chat route, while one text is ingested
ChatServes(q) ==
  \/ PostArrives(q) \/ QValidate(q) \/ QConnect(q) \/ QRetrieve(q)
  \/ QChainRetrieve(q) \/ QGenerate(q) \/ sendMessageSettles(q)

ChatUses ==
  \/ \E t \in ChatInputs : SetInput(t)
  \/ sendMessage
  \/ handleClearChat

ChatNext ==
  \/ ChatUses
  \/ \E q \in Queries : ChatServes(q)
  \/ \E r \in {"i1"} :
       \/ ArriveWith(r, {Body("", ShortText, "", "")})
       \/ DispatchText(r) \/ Split(r) \/ Embed(r) \/ Store(r)

ChatSpec == Init /\ [][ChatNext]_vars

\* every await of the route and the axios.post of the component settle
ChatLiveSpec == ChatSpec /\ \A q \in Queries : WF_vars(ChatServes(q))

\* the page: the chat component with its route, and the upload form, whose
\* onIndexed clears the chat; a text is ingested by a request of its own (the
\* form's call of the upload route is commented out)
PageNext ==
  \/ ChatNext
  \/ \E u \in UrlInputs : SetUrl(u)
  \/ handleSubmit
  \/ TimeoutFires

PageSpec == Init /\ [][PageNext]_vars

\* ================================================================ claims
Begun(l, op) == \E i \in 1..Len(l) : l[i] = Begin(op)
Raised(l, op) == \E i \in 1..Len(l) : l[i] = Raise(op)
AnyRaised(l) == \E i \in 1..Len(l) : l[i].err

\* every character of s is whitespace (so is the empty string)
AllSpaces(s) == \A i \in 1..Len(s) : IsSpace(s[i])

\* calls that leave the process: page fetch, embedding, vector store
NetworkCalls(l) == {i \in 1..Len(l) : ~l[i].err /\ l[i].op \in {"fetch", "embed", "store"}}

RetrievedNothing(q) ==
  /\ qpc[q] \notin {"idle", "parsed", "connect", "retrieve"}
  /\ Begun(qlog[q], "retrieve")
  /\ ~AnyRaised(qlog[q])
  /\ relevantChunks[q] = <<>>

C2_NoChatOnEmptyRetrieval ==
  \A q \in Queries :
    RetrievedNothing(q) =>
      /\ qpc[q] = "done"
      /\ qresp[q] = [status |-> 200, answer |-> NoInfoAnswer, chunks |-> 0]
      /\ ~Begun(qlog[q], "llm")

C2_Witness ==
  \E q \in Queries :
    /\ RetrievedNothing(q)
    /\ qpc[q] = "done"
    /\ qresp[q].answer = NoInfoAnswer

\* C3: an ingest request with more than one populated variant, or none, fails
\* with a validation error before any network call is made
C3_RejectsMultipleOrNone ==
  \A r \in Ingests :
    (ipc[r] \notin {"idle", "parsed"} /\ Populated(body[r]) # 1) =>
      /\ ipc[r] = "done"
      /\ ~resp[r].success
      /\ NetworkCalls(log[r]) = {}

\* C4: a query that is empty or only whitespace is answered with HTTP 400 and
\* neither the vector store nor the chat model is called
C4_BlankQueryRejected ==
  \A q \in Queries :
    (qpc[q] \notin {"idle", "parsed"} /\ AllSpaces(query[q])) =>
      /\ qpc[q] = "done"
      /\ qresp[q].status = 400
      /\ qlog[q] = <<>>

C4_Witness ==
  \E q \in Queries :
    /\ qpc[q] = "done"
    /\ query[q] # <<>> /\ AllSpaces(query[q])
    /\ qresp[q].status = 400

\* C5: success only if every record was written; a partial write is answered
\* with a failure that carries the number of records written; chunksStored is
\* the number of records of the request in the collection
C5_TruthfulStoredCount ==
  \A r \in Ingests :
    ipc[r] = "done" =>
      LET n == Cardinality(StoredBy(r, collection[UploadStore.url])) IN
      IF resp[r].success
      THEN n = Len(enrichedDocs[r]) /\ resp[r].stats.chunksStored = n
      ELSE n > 0 => ("chunksStored" \in DOMAIN resp[r] /\ resp[r].chunksStored = n)

\* C6: no stage swallows an error: an error raised at any stage is the last
\* thing the request does and its response is a failure
AbortsAt(r, i) ==
  /\ i = Len(log[r])
  /\ ipc[r] = "done"
  /\ ~resp[r].success

C6_NoErrorSwallowed ==
  \A r \in Ingests : \A i \in 1..Len(log[r]) : log[r][i].err => AbortsAt(r, i)

\* C6 as amended: an error raised at any stage aborts the request, except an
\* error of the in-memory (Blob) attempt of the pdf or txt loader: that one is
\* caught, the buffer is written to a temporary file and the loader is run
\* once more from the file, and an error of the write or of the second run
\* aborts the request
BlobAttempts == {"pdfBlob", "txtBlob"}
FileLoaderOf(op) == IF op = "pdfBlob" THEN "pdfFile" ELSE "txtFile"

FallsBackAt(r, i) ==
  /\ Len(log[r]) >= i + 2
  /\ log[r][i + 1] = Begin("write")
  /\ log[r][i + 2] \in {Raise("write"), Begin(FileLoaderOf(log[r][i].op))}
  /\ \A j \in 1..Len(log[r]) : (log[r][j].err /\ log[r][j].op \in BlobAttempts) => j = i

C6_ErrorsAbortExceptBlobFallback ==
  \A r \in Ingests : \A i \in 1..Len(log[r]) :
    log[r][i].err =>
      IF log[r][i].op \in BlobAttempts THEN FallsBackAt(r, i) ELSE AbortsAt(r, i)

\* the Blob attempt failed, the file attempt loaded, and a later stage failed
C6_Witness ==
  \E r \in Ingests :
    /\ Raised(log[r], "pdfBlob") /\ Begun(log[r], "pdfFile")
    /\ Raised(log[r], "embed")
    /\ ipc[r] = "done" /\ ~resp[r].success

\* C7: a pdf whose bytes are fewer than the minimum or do not begin with
\* %PDF- fails before any PDF loader runs and leaves no temporary file
StartsWith(buf, sig) ==
  /\ Len(buf.head) >= Len(sig)
  /\ \A i \in 1..Len(sig) : buf.head[i] = sig[i]

PdfLoaderRan(r) == Begun(log[r], "pdfBlob") \/ Begun(log[r], "pdfFile")

RejectedBeforeLoader(r) ==
  /\ ipc[r] = "done"
  /\ ~resp[r].success
  /\ ~PdfLoaderRan(r)
  /\ tempPath[r] = NoPath
  /\ \A p \in Paths : files[p] = NoFile

IsPdfRequest(r) ==
  /\ ipc[r] \notin {"idle", "parsed"}
  /\ IsFileBranch(body[r])
  /\ body[r].fileType = "pdf"

C7_PdfDashSignature ==
  \A r \in Ingests :
    (/\ IsPdfRequest(r)
     /\ \/ Base64Decode(body[r].fileContent).len < 100
        \/ ~StartsWith(Base64Decode(body[r].fileContent), <<"%", "P", "D", "F", "-">>))
      => RejectedBeforeLoader(r)

\* C7 as amended: a pdf sent as the only variant whose bytes are fewer than 100
\* or do not begin with the four bytes %PDF fails before any PDF loader runs
\* and leaves no temporary file
C7_PdfSignature ==
  \A r \in Ingests :
    (/\ IsPdfRequest(r)
     /\ \/ Base64Decode(body[r].fileContent).len < 100
        \/ ~StartsWith(Base64Decode(body[r].fileContent), <<"%", "P", "D", "F">>))
      => RejectedBeforeLoader(r)

\* a pdf of enough bytes with a wrong header has been rejected
C7_Witness ==
  \E r \in Ingests :
    /\ IsPdfRequest(r)
    /\ Base64Decode(body[r].fileContent).len >= 100
    /\ ~StartsWith(Base64Decode(body[r].fileContent), <<"%", "P", "D", "F">>)
    /\ RejectedBeforeLoader(r)

\* C8: in every enriched chunk sequence the chunkIndex values are exactly
\* 0..totalChunks-1, each once, totalChunks is the length of the sequence and
\* chunkSize is the length of the chunk's content
C8_ChunkPositions ==
  \A r \in Ingests :
    LET ds == enrichedDocs[r] IN
    /\ {ds[i].metadata.chunkIndex : i \in 1..Len(ds)} = 0..(Len(ds) - 1)
    /\ \A i, j \in 1..Len(ds) :
         ds[i].metadata.chunkIndex = ds[j].metadata.chunkIndex => i = j
    /\ \A i \in 1..Len(ds) :
         /\ ds[i].metadata.totalChunks = Len(ds)
         /\ ds[i].metadata.chunkSize = Len(ds[i].pageContent)

C8_Witness ==
  \E r \in Ingests :
    /\ Len(enrichedDocs[r]) >= 3
    /\ enrichedDocs[r][3].metadata.chunkIndex = 2

\* C9: every chunk of a text longer than chunkSize is at most chunkSize long
C9_ChunkLengthBounded ==
  (cdone /\ Len(ctext) > ChunkSize) =>
    \A i \in 1..Len(cchunks) : Len(cchunks[i].content) <= ChunkSize

C9_Witness ==
  /\ cdone /\ Len(ctext) > ChunkSize
  /\ Len(cchunks) >= 2
  /\ \E i \in 1..Len(cchunks) : Len(cchunks[i].content) = ChunkSize

\* C10: the chunks of a text, each non-first one without the prefix that
\* overlaps the chunk before it, concatenate to the text
OverlapWithPrevious(cs, i) ==
  IF cs[i - 1].e >= cs[i].b THEN cs[i - 1].e - cs[i].b + 1 ELSE 0

WithoutOverlap(cs, i) ==
  IF i = 1 THEN cs[i].content
  ELSE SubSeq(cs[i].content, OverlapWithPrevious(cs, i) + 1, Len(cs[i].content))

RECURSIVE ReassembleUpTo(_, _)
ReassembleUpTo(cs, n) ==
  IF n = 0 THEN <<>> ELSE ReassembleUpTo(cs, n - 1) \o WithoutOverlap(cs, n)

Reassemble(cs) == ReassembleUpTo(cs, Len(cs))

C10_RoundTrip == cdone => Reassemble(cchunks) = ctext

\* C10 as amended: the chunks reconstruct the text except for whitespace at
\* chunk boundaries: each chunk is a stretch of the text that neither starts
\* nor ends with whitespace, the chunks follow the order of the text, and every
\* character of the text that is not whitespace lies in some chunk
C10_RoundTripUpToBoundaryWhitespace ==
  cdone =>
    /\ \A i \in 1..Len(cchunks) :
         /\ 1 <= cchunks[i].b /\ cchunks[i].b <= cchunks[i].e
         /\ cchunks[i].e <= Len(ctext)
         /\ cchunks[i].content = SubSeq(ctext, cchunks[i].b, cchunks[i].e)
         /\ ~IsSpace(Head(cchunks[i].content))
         /\ ~IsSpace(cchunks[i].content[Len(cchunks[i].content)])
    /\ \A i \in 2..Len(cchunks) :
         /\ cchunks[i - 1].b <= cchunks[i].b
         /\ cchunks[i - 1].e <= cchunks[i].e
    /\ \A p \in 1..Len(ctext) :
         ~IsSpace(ctext[p]) =>
           \E i \in 1..Len(cchunks) : cchunks[i].b <= p /\ p <= cchunks[i].e

\* overlapping chunks and whitespace dropped between two chunks
C10_Witness ==
  /\ cdone
  /\ Len(cchunks) >= 3
  /\ \E i \in 2..Len(cchunks) : OverlapWithPrevious(cchunks, i) > 0
  /\ \E i \in 2..Len(cchunks) : cchunks[i].b > cchunks[i - 1].e + 1
  /\ Reassemble(cchunks) # ctext

\* C11: a text of at most chunkSize characters sent as the text variant is
\* chunked into exactly one chunk whose content is the text itself, and the
\* request reports chunksCreated = 1 with chunkIndex 0 and totalChunks 1
IsTextRequest(r) ==
  /\ ipc[r] \notin {"idle", "parsed"}
  /\ ~TruthyStr(body[r].url)
  /\ TruthyText(body[r].text)

HasSplit(r) == IsTextRequest(r) /\ ipc[r] # "split"

OneChunkOf(r, content) ==
  /\ Len(chunkedDocs[r]) = 1
  /\ Len(enrichedDocs[r]) = 1
  /\ enrichedDocs[r][1].pageContent = content
  /\ enrichedDocs[r][1].metadata.chunkIndex = 0
  /\ enrichedDocs[r][1].metadata.totalChunks = 1
  /\ (ipc[r] = "done" /\ resp[r].success) => resp[r].stats.chunksCreated = 1

C12_SameEmbeddingAndCollection ==
  \A r \in Ingests : \A q \in Queries :
    (Begun(log[r], "store") /\ Begun(qlog[q], "connect")) =>
      /\ embeddings = chatEmbeddings
      /\ UploadStore.collectionName = ChatStore(env).collectionName
      /\ UploadStore.url = ChatStore(env).url

\* C13: the collection is append-only: no step removes or changes a stored
\* record, a step that adds records is the store write of an ingest request
\* and adds records of that request only, and no step of a query request
\* changes the collection
C13_AppendOnly ==
  [][/\ \A e \in Endpoints : collection[e] \subseteq collection'[e]
     /\ \A e \in Endpoints : \A rec \in collection'[e] \ collection[e] :
          ipc[rec.owner] = "store" /\ ipc'[rec.owner] = "done"
     /\ qvars' # qvars => collection' = collection]_vars

\* both ingest requests have written, one of them only a part of its records,
\* and a query request has read the collection and been answered
C13_Witness ==
  /\ StoredBy("i1", collection[UploadStore.url]) # {}
  /\ StoredBy("i2", collection[UploadStore.url]) # {}
  /\ \E r \in Ingests : Raised(log[r], "store")
  /\ \E q \in Queries :
       qpc[q] = "done" /\ Begun(qlog[q], "llm") /\ Len(relevantChunks[q]) > 0

\* C14: when two ingest requests that ran concurrently have both reported
\* success, the collection holds every record of both: each request's records
\* are all there and none of them was overwritten or merged with a record of
\* the other
BothSucceeded ==
  \A r \in Ingests : ipc[r] = "done" /\ resp[r].success

C14_ConcurrentIngestsKeepAllRecords ==
  BothSucceeded =>
    LET coll == collection[UploadStore.url] IN
    /\ \A r \in Ingests :
         /\ Records(r, enrichedDocs[r]) \subseteq coll
         /\ Cardinality(StoredBy(r, coll)) = Len(enrichedDocs[r])
    /\ Cardinality(coll) = Len(enrichedDocs["i1"]) + Len(enrichedDocs["i2"])

\* two requests that sent the same text of several chunks have both reported
\* success and the collection holds the records of each
C14_Witness ==
  /\ BothSucceeded
  /\ body["i1"] = body["i2"]
  /\ Len(enrichedDocs["i1"]) >= 2
  /\ Cardinality(collection[UploadStore.url]) = 2 * Len(enrichedDocs["i1"])

\* C15: an ingest request with no url, no text and no fileContent + fileType
\* is answered with HTTP 400; HTTP 500 only answers a request whose input was
\* valid
NoVariant(b) ==
  /\ ~TruthyStr(b.url)
  /\ ~TruthyText(b.text)
  /\ ~(TruthyStr(b.fileContent) /\ TruthyStr(b.fileType))

C15_MissingInputIs400 ==
  \A r \in Ingests :
    ipc[r] = "done" =>
      /\ NoVariant(body[r]) => resp[r].status = 400
      /\ resp[r].status = 500 => ~NoVariant(body[r])

\* C16: an ingest request that carries file content with a declared type
\* other than pdf, csv or txt fails with the unsupported-type error, and
\* nothing of it is embedded or written to the collection
CarriesUnsupportedFile(b) ==
  /\ TruthyStr(b.fileContent) /\ TruthyStr(b.fileType)
  /\ b.fileType \notin {"pdf", "csv", "txt"}

C16_UnsupportedTypeFails ==
  \A r \in Ingests :
    (ipc[r] \notin {"idle", "parsed"} /\ CarriesUnsupportedFile(body[r])) =>
      /\ ipc[r] = "done"
      /\ ~resp[r].success
      /\ resp[r].error = "Unsupported file type"
      /\ ~Begun(log[r], "embed")
      /\ StoredBy(r, collection[UploadStore.url]) = {}

\* C17: the chunker is never given an empty document sequence: a request
\* whose loader returned zero documents fails with the no-content error and
\* nothing of it is chunked, embedded or written
LoaderOps == {"fetch", "pdfBlob", "pdfFile", "csvFile", "txtBlob", "txtFile"}
LoadingAt == {"loadUrl", "loadPdfBlob", "loadPdfFile", "loadCsv", "loadTxtBlob", "loadTxtFile"}

\* the loader that was started last has returned (it did not throw)
LoaderReturned(r) ==
  /\ ipc[r] \notin {"idle", "parsed"} \cup LoadingAt
  /\ \E i \in 1..Len(log[r]) :
       /\ ~log[r][i].err /\ log[r][i].op \in LoaderOps
       /\ \A j \in (i + 1)..Len(log[r]) : log[r][j].op \notin LoaderOps \cup {"write"}

C17_NoEmptyDocsToChunker ==
  \A r \in Ingests :
    /\ Begun(log[r], "split") => docs[r] # <<>>
    /\ (LoaderReturned(r) /\ docs[r] = <<>>) =>
         /\ ipc[r] = "done"
         /\ ~resp[r].success
         /\ resp[r].error = "No documents were loaded"
         /\ ~Begun(log[r], "split") /\ ~Begun(log[r], "embed") /\ ~Begun(log[r], "store")
         /\ chunkedDocs[r] = <<>>
         /\ StoredBy(r, collection[UploadStore.url]) = {}

\* the csv loader read the temporary file and returned no document
C17_Witness ==
  \E r \in Ingests :
    /\ LoaderReturned(r) /\ docs[r] = <<>>
    /\ Begun(log[r], "csvFile")
    /\ ipc[r] = "done"
    /\ resp[r].error = "No documents were loaded"

\* C18: a request with the text variant yields exactly one document, with the
\* given string as its content and "direct_input" as its source, and it fails
\* with a validation error exactly when the text is empty or only whitespace
OnlyTextGiven(b) ==
  ~TruthyStr(b.url) /\ ~TruthyStr(b.fileContent) /\ ~TruthyStr(b.fileType)

FailedValidation(r) ==
  /\ ~resp[r].success
  /\ resp[r].error = "No valid input provided (url, text, or fileContent required)"

C18_TextVariantValidated ==
  \A r \in Ingests :
    (ipc[r] = "done" /\ OnlyTextGiven(body[r])) =>
      /\ FailedValidation(r) <=> AllSpaces(body[r].text)
      /\ ~AllSpaces(body[r].text) => docs[r] = <<Doc(body[r].text, "direct_input")>>

\* C19: within one ingest or query request a failed external call (page
\* fetch, embedding, store write, store connection or search, chat generation)
\* is not attempted again: the failure is the last thing the request does and
\* the request is answered with HTTP 500
IngestExternalOps == {"fetch", "embed", "store"}
QueryExternalOps == {"connect", "retrieve", "llm"}

C20_FormReportsAfterEndpointSuccess ==
  (toast = "Upload successful!" \/ indexed > 0) =>
    \E r \in Ingests : ipc[r] = "done" /\ resp[r].success

\* C22: within one ingest request the chunks follow the order of the loaded
\* documents (every chunk of an earlier document comes before every chunk of a
\* later one, and the chunks of one document follow its lines), the enriched
\* chunks are the chunker's chunks in the same order, and chunkIndex increases
\* strictly along that order
DocPos(d) == IF "line" \in DOMAIN d.metadata THEN d.metadata.line ELSE 1

C22_ChunkOrderFollowsDocuments ==
  \A r \in Ingests :
    LET cs == chunkedDocs[r]
        es == enrichedDocs[r]
    IN /\ Len(es) = Len(cs)
       /\ \A k \in 1..Len(cs) :
            /\ es[k].pageContent = cs[k].pageContent
            /\ DocPos(es[k]) = DocPos(cs[k])
            /\ es[k].metadata.loc = cs[k].metadata.loc
            /\ DocPos(cs[k]) \in 1..Len(docs[r])
       /\ \A k, l \in 1..Len(cs) :
            k < l =>
              /\ DocPos(cs[k]) <= DocPos(cs[l])
              /\ DocPos(cs[k]) = DocPos(cs[l]) => cs[k].metadata.loc[1] <= cs[l].metadata.loc[1]
              /\ es[k].metadata.chunkIndex < es[l].metadata.chunkIndex

\* two documents were loaded, the first was cut into several chunks, and the
\* chunks of the second come last
C22_Witness ==
  \E r \in Ingests :
    /\ Len(docs[r]) = 2
    /\ Len(enrichedDocs[r]) >= 3
    /\ DocPos(enrichedDocs[r][1]) = 1 /\ DocPos(enrichedDocs[r][2]) = 1
    /\ DocPos(enrichedDocs[r][Len(enrichedDocs[r])]) = 2

\* C23: enrichment merges into the inherited metadata: every inherited key
\* other than chunkIndex, totalChunks, chunkSize and timestamp keeps its value
\* in the enriched chunk, the content is unchanged, and the enriched metadata
\* is a new map: the chunk's own metadata is as it was before the enrichment
EnrichmentKeys == {"chunkIndex", "totalChunks", "chunkSize", "timestamp"}

C23_EnrichmentMerges ==
  \A r \in Ingests :
    LET cs == chunkedDocs[r]
        es == enrichedDocs[r]
    IN /\ Len(es) = Len(cs)
       /\ \A k \in 1..Len(cs) :
            /\ es[k].pageContent = cs[k].pageContent
            /\ DOMAIN es[k].metadata = DOMAIN cs[k].metadata \cup EnrichmentKeys
            /\ \A key \in DOMAIN cs[k].metadata \ EnrichmentKeys :
                 es[k].metadata[key] = cs[k].metadata[key]
            /\ DOMAIN cs[k].metadata \cap EnrichmentKeys = {}
            /\ "source" \in DOMAIN cs[k].metadata /\ "loc" \in DOMAIN cs[k].metadata

\* chunks that inherited source, line and loc have been enriched
C23_Witness ==
  \E r \in Ingests :
    /\ Len(enrichedDocs[r]) >= 2
    /\ {"source", "line", "loc"} \subseteq DOMAIN chunkedDocs[r][2].metadata
    /\ enrichedDocs[r][2].metadata.line = chunkedDocs[r][2].metadata.line
    /\ enrichedDocs[r][2].metadata.chunkIndex = 1

\* C24: two ingest requests that are in progress at the same time and both
\* use a temporary file have distinct temporary paths, so a request that is
\* about to read its temporary file finds it there with the content it wrote
InProgress(r) == ipc[r] \notin {"idle", "done"}

C24_TempPathsDistinct ==
  /\ \A r1, r2 \in Ingests :
       (r1 # r2 /\ InProgress(r1) /\ InProgress(r2)
        /\ tempPath[r1] # NoPath /\ tempPath[r2] # NoPath)
         => tempPath[r1] # tempPath[r2]
  /\ \A r \in Ingests :
       ipc[r] = "loadCsv" =>
         /\ files[tempPath[r]] # NoFile
         /\ files[tempPath[r]] = body[r].fileContent

\* C25: in a query request that reaches the chat model the context of the
\* prompt is built from exactly the chunks that were retrieved, passed the
\* emptiness check and are counted in chunksRetrieved, whatever ingest
\* requests write to the collection while the query is in progress
C25_ContextIsTheCheckedChunks ==
  \A q \in Queries :
    Begun(qlog[q], "llm") =>
      /\ contextDocs[q] = relevantChunks[q]
      /\ (qpc[q] = "done" /\ qresp[q].success) =>
           qresp[q].chunksRetrieved = Len(contextDocs[q])

\* C26: an ingest request that ends with a failure response leaves the
\* collection as it was before the request: no record of the failed request
\* remains stored
C26_FailedIngestStoresNothing ==
  \A r \in Ingests :
    (ipc[r] = "done" /\ ~resp[r].success) =>
      \A e \in Endpoints : StoredBy(r, collection[e]) = {}

\* C27: every success response of the ingest endpoint reports at least one
\* chunk created, as many chunks stored as created, and an averageChunkSize
\* that is a number (its divisor was not zero)
C27_SuccessHasChunks ==
  \A r \in Ingests :
    (ipc[r] = "done" /\ resp[r].success) =>
      /\ resp[r].stats.chunksCreated >= 1
      /\ resp[r].stats.chunksStored = resp[r].stats.chunksCreated
      /\ resp[r].stats.averageChunkSize \in Nat

\* C29: in the upload form a tab switch cancels the pending submission: a
\* success toast, an onIndexed call or a processedFile record is only produced
\* for a submission the form is still waiting for (loading is true), and
\* loading only becomes true by a submit
C29_TabSwitchCancelsSubmission ==
  [][/\ indexed' # indexed => form.loading
     /\ (toast' # toast /\ toast' = "Upload successful!") => form.loading
     /\ (form'.processedFile # form.processedFile
          /\ form'.processedFile # NoProcessed) => form.loading
     /\ (~form.loading /\ form'.loading) => submits' = submits + 1]_vars

\* C21: when a query of the chat settles, the message appended has the role
\* system if the query failed (the request was rejected, or the response had
\* no answer) and the role assistant otherwise, and the message of a failed
\* query is shown differently from the 'no relevant information' answer
QueryFailed(q) ==
  \/ qpc[q] # "done"
  \/ ~AxiosResolves(qresp[q])
  \/ qresp[q].answer = ""

C21_FailedQueryHasSystemRole ==
  [][\A q \in Queries :
       Len(inflight') < Len(inflight) =>
         LET m == messages'[Len(messages')] IN
           /\ QueryFailed(q) =>
                /\ m.role = "system"
                /\ Render(m) # Render(Msg("assistant", NoInfoAnswer))
           /\ ~QueryFailed(q) => m.role = "assistant"]_vars

\* a chat that holds the 'no relevant information' answer of one query and
\* the error message of another
C21_Witness ==
  /\ \E i \in 2..Len(messages) :
       messages[i].role = "assistant" /\ messages[i].text = NoInfoAnswer
  /\ \E j \in 2..Len(messages) : messages[j].role = "system"

\* C28: in the message list every assistant or error reply comes right after
\* the user message that triggered it, also when the page clears the chat
\* while a query is in flight
C28_ReplyFollowsItsUserMessage ==
  \A i \in 2..Len(messages) :
    messages[i].role # "user" => messages[i - 1].role = "user"

\* C30: at most one query is in flight and loading is true exactly then; a
\* sendMessage with loading true or a blank input posts nothing and appends
\* nothing; an accepted sendMessage appends the user message and posts the
\* input; a settled query appends one reply of role assistant or system and
\* ends loading; nothing else appends a message; loading returns to false
C30_OneQueryInFlight ==
  /\ [](Len(inflight) <= 1 /\ (loading <=> inflight # <<>>))
  /\ [][/\ (loading \/ IsBlank(input)) =>
             /\ Len(inflight') <= Len(inflight)
             /\ \/ messages' = messages
                \/ Len(inflight') < Len(inflight)
                \/ Len(messages') = 1
        /\ Len(inflight') > Len(inflight) =>
             /\ inflight' = Append(inflight, input)
             /\ messages' = Append(messages, Msg("user", input))
        /\ Len(inflight') < Len(inflight) =>
             /\ Len(messages') = Len(messages) + 1
             /\ SubSeq(messages', 1, Len(messages)) = messages
             /\ messages'[Len(messages')].role \in {"assistant", "system"}
             /\ ~loading'
        /\ Len(messages') > Len(messages) => inflight' # inflight]_vars
  /\ (loading ~> ~loading)

\* every message was sent and answered: the list is the welcome message and
\* then a user message and its reply in turn
C30_Witness ==
  /\ sends = MaxSends
  /\ ~loading
  /\ Len(messages) = 1 + 2 * sends
  /\ \A i \in 1..sends :
       /\ messages[2 * i].role = "user"
       /\ messages[2 * i + 1].role \in {"assistant", "system"}

====
